---- MODULE Spec2Model ----
(***************************************************************************)
(* Model of bloodhound-bot: the listing builder (parser.parse_post), the   *)
(* channel sync engine (parser.sync_channel) and the scheduler that runs   *)
(* it (main.sync_job), over the posts table (models.Post).                 *)
(*                                                                         *)
(* Time is counted in units of the lookback window, so SYNC_LOOKBACK is 1. *)
(* A nullable value is a sequence of length at most one: None is <<>> and  *)
(* a present value v is <<v>>.                                             *)
(***************************************************************************)
EXTENDS Integers, Sequences, FiniteSets, TLC

\* ------------------------------------------------------------------ bounds
\* the ids of the channel's messages are 1..MaxMsgId
MaxMsgId == 2
\* how often the clock advances by one lookback window
MaxTicks == 1

\* --------------------------------------------------------------- constants
SYNC_LOOKBACK == 1
MIN_REQUIRED_STRUCTURED_FIELDS == 3

None == <<>>
Some(v) == <<v>>

\* str(entity.id) of the channel main.py syncs, and of some other channel
\* whose rows share the posts table.
CHANNEL == "rent_tbilisi_ge"
OTHER_CHANNEL == "other"

MsgIds == 1..MaxMsgId

\* ------------------------------------------------------------------ models
\* The columns of the posts table.
PostColumns ==
    {"channel_id", "source_id", "type", "district", "metro", "address",
     "rooms", "size_sqm", "floor", "price", "pets", "tenants",
     "created_at", "updated_at", "deleted"}

\* --------------------------------------------------------- message bodies
\* A message body is described by what each pattern of parser.py finds in
\* it: the RE_* flags are the results of the searches, the other fields the
\* captured groups (None when the pattern does not match).
EmptyText ==
    [nonempty |-> FALSE, RE_RENTED |-> FALSE, RE_RENT |-> FALSE,
     RE_SELL |-> FALSE, district |-> None, metro |-> None, address |-> None,
     rooms |-> None, size_sqm |-> None, floor |-> None,
     total_floors |-> None, price |-> None, pets |-> None,
     features |-> <<>>]

\* "#Vake 🚇 #Rustaveli\n🏢 #1Bed Apartment for #Rent\n🏠 75 Sq.m | 10 Floor |\n💰 800$"
ListingA ==
    [EmptyText EXCEPT !.nonempty = TRUE, !.RE_RENT = TRUE,
                      !.district = Some("Vake"), !.metro = Some("Rustaveli"),
                      !.rooms = Some(1), !.size_sqm = Some(75),
                      !.floor = Some(10), !.price = Some(800)]

\* "❗️#Rented\nNice apartment in 📍Vake found a tenant": RE_RENT also matches
\* inside "#Rented"
RentedText ==
    [EmptyText EXCEPT !.nonempty = TRUE, !.RE_RENTED = TRUE, !.RE_RENT = TRUE,
                      !.address = Some("Vake found a tenant")]

Texts == {EmptyText, ListingA, RentedText}

\* ----------------------------------------------------------------- parser
DISTRICT_MAP == [k \in {"dighomi", "dididighomi"} |->
                    IF k = "dighomi" THEN "Digomi" ELSE "DidiDigomi"]

METRO_MAP == [k \in {"libertysquare", "ahmetelitheatre", "technicaluniversity"} |->
                 CASE k = "libertysquare" -> "LibertySquare"
                   [] k = "ahmetelitheatre" -> "AkhmeteliTheatre"
                   [] OTHER -> "TCUniversity"]

PETS_MAPPING == [k \in {"allowed", "notallowed", "byagreement"} |->
                    CASE k = "allowed" -> "allowed"
                      [] k = "notallowed" -> "not_allowed"
                      [] OTHER -> "by_agreement"]

\* str.lower() on the tokens the model's bodies carry
Lower(s) ==
    CASE s = "Vake" -> "vake"
      [] s = "Dighomi" -> "dighomi"
      [] s = "Rustaveli" -> "rustaveli"
      [] s = "Allowed" -> "allowed"
      [] s = "NotAllowed" -> "notallowed"
      [] s = "ByAgreement" -> "byagreement"
      [] s = "Rent" -> "rent"
      [] s = "Rented" -> "rented"
      [] s = "Sell" -> "sell"
      [] s = "Sale" -> "sale"
      [] s = "Sq.m" -> "sq.m"
      [] s = "Floor" -> "floor"
      [] s = "DIGHOMI" -> "dighomi"
      [] s = "DidiDighomi" -> "dididighomi"
      [] s = "Libertysquare" -> "libertysquare"
      [] s = "LibertySquare" -> "libertysquare"
      [] OTHER -> s

\* d.strip().replace(" ", "") on the tokens the normalizers are handed
StripSpaces(s) ==
    CASE s = " Vake " -> "Vake"
      [] s = " Dighomi" -> "Dighomi"
      [] s = "Didi Dighomi" -> "DidiDighomi"
      [] s = "Liberty Square " -> "LibertySquare"
      [] s = " " -> ""
      [] OTHER -> s

\* The lookup without lower(): the alias is found for a key as written.
normalize_district_as_written(d) ==
    IF d = None \/ d = Some("") THEN None
    ELSE IF StripSpaces(d[1]) \in DOMAIN DISTRICT_MAP
         THEN Some(DISTRICT_MAP[StripSpaces(d[1])])
         ELSE Some(StripSpaces(d[1]))

normalize_district(d) ==
    IF d = None \/ d = Some("") THEN None
    ELSE IF Lower(StripSpaces(d[1])) \in DOMAIN DISTRICT_MAP
         THEN Some(DISTRICT_MAP[Lower(StripSpaces(d[1]))])
         ELSE Some(StripSpaces(d[1]))

normalize_metro(m) ==
    IF m = None \/ m = Some("") THEN None
    ELSE IF Lower(StripSpaces(m[1])) \in DOMAIN METRO_MAP
         THEN Some(METRO_MAP[Lower(StripSpaces(m[1]))])
         ELSE Some(StripSpaces(m[1]))

\* The keyword arguments parse_post passes to Post(...).
PostKwargs(text, channel_id, msg_id) ==
    [channel_id |-> channel_id,
     source_id  |-> msg_id,
     type       |-> IF text.RE_RENT THEN "rent" ELSE "sell",
     district   |-> normalize_district(text.district),
     metro      |-> normalize_metro(text.metro),
     address    |-> text.address,
     rooms      |-> text.rooms,
     size_sqm   |-> text.size_sqm,
     floor      |-> text.floor,
     price      |-> text.price,
     pets       |-> IF text.pets = None THEN None
                    ELSE Some(PETS_MAPPING[Lower(text.pets[1])]),
     features   |-> text.features,
     tenants    |-> None,
     deleted    |-> FALSE]

\* mutant: a constructor that drops the keywords it does not know
PostIgnoringUnknown(kwargs) ==
    Some([c \in PostColumns |->
             IF c \in DOMAIN kwargs THEN kwargs[c] ELSE None])

\* The declarative constructor of the mapped class: every keyword has to be
\* an attribute of the class, otherwise it raises TypeError (modelled as
\* None); columns that get no keyword are left unset.
Post(kwargs) ==
    IF DOMAIN kwargs \subseteq PostColumns
    THEN Some([c \in PostColumns |->
                  IF c \in DOMAIN kwargs THEN kwargs[c] ELSE None])
    ELSE None

\* The five attributes of the completeness guard.
KeyAttrs(kw) == <<kw.district, kw.price, kw.rooms, kw.size_sqm, kw.address>>

Present(kw) == Cardinality({i \in 1..5 : KeyAttrs(kw)[i] # None})

\* The guards with the rented test moved behind the completeness guard.
ReturnPointRentedLast(text) ==
    IF ~text.nonempty THEN "EmptyMessage"
    ELSE IF ~(text.RE_RENT \/ text.RE_SELL) THEN "NoKindTag"
    ELSE IF Present(PostKwargs(text, CHANNEL, 0)) < MIN_REQUIRED_STRUCTURED_FIELDS
         THEN "InsufficientStructure"
    ELSE IF text.RE_RENTED THEN "AlreadyRented"
    ELSE "construct"

\* The guards of parse_post in the order of the code: the return statement
\* (and log line) a body leaves through, or "construct" when it reaches the
\* constructor.
ReturnPoint(text) ==
    IF ~text.nonempty THEN "EmptyMessage"
    ELSE IF text.RE_RENTED THEN "AlreadyRented"
    ELSE IF ~(text.RE_RENT \/ text.RE_SELL) THEN "NoKindTag"
    ELSE IF Present(PostKwargs(text, CHANNEL, 0)) < MIN_REQUIRED_STRUCTURED_FIELDS
         THEN "InsufficientStructure"
    ELSE "construct"

\* What the guards of parse_post decide before the record is constructed.
PassesGuards(text) == ReturnPoint(text) = "construct"

\* parse_post: None, or Some(post).  An exception of the constructor is
\* caught and turned into None.
parse_post(message, channel_id) ==
    IF PassesGuards(message.message)
    THEN Post(PostKwargs(message.message, channel_id, message.id))
    ELSE None


\* ------------------------------------------------------------------ store
\* A row of the posts table carries every column except updated_at, a write
\* timestamp the ORM maintains, which is not modelled.
RowColumns == PostColumns \ {"updated_at"}

\* A row as the table holds it for a listing body: the table is a file that
\* outlives the process, so a run starts from whatever it holds.
StoredPost(channel_id, source_id, text, deleted) ==
    LET kw == PostKwargs(text, channel_id, source_id)
    IN [c \in RowColumns |->
           CASE c = "created_at" -> Some(0)
             [] c = "deleted" -> deleted
             [] OTHER -> kw[c]]

Identity(r) == <<r.channel_id, r.source_id>>

\* session.get(Post, (channel_id, source_id)): None or Some(row)
SessionGet(s, channel_id, source_id) ==
    LET hit == {r \in s : Identity(r) = <<channel_id, source_id>>}
    IN IF hit = {} THEN None ELSE Some(CHOOSE r \in hit : TRUE)

\* mutant: the reset deletes the tombstoned rows only
ResetDeleteTombstones(s, channel_id) ==
    {r \in s : r.channel_id # channel_id \/ ~r.deleted}

\* mutant: the reset deletes the rows of every channel
ResetDeleteEveryChannel(s, channel_id) == {}

\* session.query(Post).filter_by(channel_id=channel_id).delete()
ResetDelete(s, channel_id) == {r \in s : r.channel_id # channel_id}

\* The update branch of the upsert: the seven assignments and deleted=False.
UpdateExisting(existing, parsed) ==
    [existing EXCEPT !.type = parsed.type,
                     !.district = parsed.district,
                     !.metro = parsed.metro,
                     !.address = parsed.address,
                     !.rooms = parsed.rooms,
                     !.size_sqm = parsed.size_sqm,
                     !.price = parsed.price,
                     !.deleted = FALSE]

\* session.add(parsed): the INSERT fills created_at with its default, the
\* time of the insert.
SessionAdd(s, parsed, now) ==
    s \cup {[c \in RowColumns |->
                IF c = "created_at" THEN Some(now) ELSE parsed[c]]}

\* The upsert of one accepted message.
Upsert(s, parsed, now) ==
    LET existing == SessionGet(s, parsed.channel_id, parsed.source_id)
    IN IF existing # None
       THEN (s \ {existing[1]}) \cup {UpdateExisting(existing[1], parsed)}
       ELSE SessionAdd(s, parsed, now)

\* mutant: every live row of the channel is marked, seen or not
ToMarkEveryLive(s, channel_id, seen) ==
    {r.source_id : r \in {q \in s : q.channel_id = channel_id /\ ~q.deleted}}

\* mutant: the difference the wrong way round
ToMarkSwapped(s, channel_id, seen) ==
    seen \ {r.source_id : r \in {q \in s : q.channel_id = channel_id /\ ~q.deleted}}

\* db_ids - seen_ids
ToMark(s, channel_id, seen) ==
    {r.source_id : r \in {q \in s : q.channel_id = channel_id /\ ~q.deleted}}
        \ seen

\* mutant: the UPDATE reaches one id only
MarkDeletedFirstOnly(s, channel_id, to_mark) ==
    LET first == CHOOSE x \in to_mark : \A y \in to_mark : x <= y
    IN {IF r.channel_id = channel_id /\ r.source_id = first
        THEN [r EXCEPT !.deleted = TRUE] ELSE r : r \in s}

\* mutant: a tombstone row is written next to the row it replaces
MarkDeletedCopy(s, channel_id, to_mark) ==
    s \cup {[r EXCEPT !.deleted = TRUE] :
               r \in {q \in s : q.channel_id = channel_id /\ q.source_id \in to_mark}}

\* mutant: the rows are removed instead of marked
MarkDeletedHard(s, channel_id, to_mark) ==
    {r \in s : ~(r.channel_id = channel_id /\ r.source_id \in to_mark)}

\* the bulk UPDATE ... SET deleted = true
MarkDeleted(s, channel_id, to_mark) ==
    {IF r.channel_id = channel_id /\ r.source_id \in to_mark
     THEN [r EXCEPT !.deleted = TRUE] ELSE r : r \in s}

\* mutant: the id is added after the test of the result, so only for an
\* accepted message
SeenAddAccepted(seen, message, parsed) ==
    IF parsed = None THEN seen ELSE seen \cup {message.id}

\* seen_ids.add(message.id), between the call of parse_post and the test of
\* its result.
SeenAdd(seen, message, parsed) == seen \cup {message.id}

\* mutant: what was pending stays in the table
RolledBackNot(committed, pending) == pending

\* What a commit that raises leaves committed: the transaction is rolled
\* back when sync_job closes the session.
RolledBack(committed, pending) == committed

\* ---------------------------------------------------------------- channel
RECURSIVE NewestFirst(_)
NewestFirst(ids) ==
    IF ids = {} THEN <<>>
    ELSE LET m == CHOOSE x \in ids : \A y \in ids : y <= x
         IN <<m>> \o NewestFirst(ids \ {m})

\* client.iter_messages(entity): the messages of the channel, newest first.
iter_messages(ch) ==
    LET order == NewestFirst({i \in MsgIds : ch[i] # None})
    IN [k \in 1..Len(order) |-> ch[order[k]][1]]

Message(id, date, text) == [id |-> id, date |-> date, message |-> text]

\* Message ids are handed out in posting order, so dates do not decrease
\* with the id.
WellFormedChannel(ch) ==
    \A i, j \in MsgIds :
        (i < j /\ ch[i] # None /\ ch[j] # None) => ch[i][1].date <= ch[j][1].date

\* The primary key of the table.
PrimaryKey(s) == \A r1, r2 \in s : Identity(r1) = Identity(r2) => r1 = r2


\* ------------------------------------------------------------------ state
VARIABLES
    RESET_DB,     \* main.py: args.reset, fixed for the run
    utcnow,       \* the clock
    channel,      \* the channel's history: id -> None or Some(message)
    db,           \* the committed posts table
    session,      \* the table as the open session sees it
    pc,           \* where the scheduler's job is
    messages,     \* the sequence client.iter_messages yields in this pass
    pos,          \* the next message of that sequence
    seen_ids,     \* sync_channel: seen_ids
    cutoff_date,  \* sync_channel: cutoff_date
    db0,          \* history: the committed table when the pass began
    before_mark,  \* history: the session's table when the loop ended
    settled,      \* history: the table the previous pass left, while
                  \* neither the channel nor the clock has changed since
    running,      \* history: the sync_job calls that have not returned
    view,         \* what the last search, district list or dump showed
    text,         \* the message body handed to the parser on its own
    result,       \* what the parser made of it
    state,        \* the conversation's state in the ConversationHandler
    user_data,    \* context.user_data of the conversation's user
    cache,        \* bot_search.DISTRICTS_CACHE
    last          \* history: the update the bot handled last

vars == <<RESET_DB, utcnow, channel, db, session, pc, messages, pos,
          seen_ids, cutoff_date, db0, before_mark, settled, running, view,
          text, result, state, user_data, cache, last>>

\* What the conversation handlers never touch: the scheduler's job.
job == <<RESET_DB, utcnow, channel, db, session, pc, messages, pos,
         seen_ids, cutoff_date, db0, before_mark, settled, running>>

\* What the scheduler's job never touches.
apart == <<view, text, result, state, user_data, cache, last>>

\* DISTRICTS_CACHE as the module creates it.
DISTRICTS_CACHE == [t \in {"rent", "sell"} |-> {}]

\* Nothing has been shown yet.
NoView == [kind |-> "none", filters |-> None, rows |-> {}, list |-> <<>>,
           districts |-> DISTRICTS_CACHE, raised |-> FALSE]

\* No update has been handled: no conversation is open, context.user_data
\* is the empty dict and DISTRICTS_CACHE is as the module creates it.
NoConversation ==
    /\ state = "END"
    /\ user_data = [k \in {} |-> None]
    /\ cache = DISTRICTS_CACHE
    /\ last = [handler |-> "none", input |-> <<>>, raised |-> FALSE,
               results |-> None, chosen |-> {}]

\* The channel gets one message per unit of time: message i has date i.
OptionalMessages ==
    {None} \cup {Some(Message(i, i, t)) : i \in MsgIds, t \in Texts}

\* The rows the table may hold for the channel when the run starts, and the
\* row of another channel it holds next to them.
InitialRows ==
    {StoredPost(CHANNEL, i, ListingA, del) : i \in MsgIds, del \in BOOLEAN}

OtherRows == {StoredPost(OTHER_CHANNEL, 1, ListingA, FALSE)}

Init ==
    /\ RESET_DB \in BOOLEAN
    /\ utcnow = MaxMsgId
    /\ channel \in {ch \in [MsgIds -> OptionalMessages] :
                      /\ \A i \in MsgIds : ch[i] # None => ch[i][1].id = i
                      /\ WellFormedChannel(ch)}
    /\ db \in {s \cup OtherRows : s \in {t \in SUBSET InitialRows : PrimaryKey(t)}}
    /\ session = db
    /\ pc = "idle"
    /\ messages = <<>>
    /\ pos = 1
    /\ seen_ids = {}
    /\ cutoff_date = 0
    /\ db0 = db
    /\ before_mark = {}
    /\ settled = None
    /\ running = 0
    /\ view = NoView
    /\ text = <<>>
    /\ result = None
    /\ NoConversation

\* The job launched without waiting for the one before it: the scheduler
\* starts a pass although the previous call has not returned.
StartSyncOverlapping ==
    /\ pc \in {"idle", "iter"}
    /\ running < 2
    /\ cutoff_date' = utcnow - SYNC_LOOKBACK
    /\ db0' = db
    /\ db' = IF RESET_DB THEN ResetDelete(db, CHANNEL) ELSE db
    /\ session' = db'
    /\ seen_ids' = {}
    /\ messages' = iter_messages(channel)
    /\ pos' = 1
    /\ pc' = "iter"
    /\ UNCHANGED <<RESET_DB, utcnow, channel, before_mark, settled>>
    /\ running' = running + 1
    /\ UNCHANGED apart

\* ------------------------------------------------------------ sync_channel
\* sync_job up to the loop of sync_channel: the cutoff, the entity, the
\* reset with its own commit, the empty seen set.
StartSync ==
    /\ pc = "idle"
    /\ cutoff_date' = utcnow - SYNC_LOOKBACK
    /\ db0' = db
    /\ db' = IF RESET_DB THEN ResetDelete(db, CHANNEL) ELSE db
    /\ session' = db'
    /\ seen_ids' = {}
    /\ messages' = iter_messages(channel)
    /\ pos' = 1
    /\ pc' = "iter"
    /\ UNCHANGED <<RESET_DB, utcnow, channel, before_mark, settled>>
    /\ running' = running + 1
    /\ UNCHANGED apart

\* The client fails to connect or to resolve the channel: the job raises
\* before sync_channel touches the table.
GetEntityRaises ==
    /\ pc = "idle"
    /\ db0' = db
    /\ pc' = "raised_entity"
    /\ UNCHANGED <<RESET_DB, utcnow, channel, db, session, messages, pos,
                   seen_ids, cutoff_date, before_mark, settled>>
    /\ UNCHANGED <<running, apart>>

\* The comparison of the break, taken one step too far: a message dated
\* exactly at the cutoff ends the loop as well.
TooOldOrEqual(message, cutoff) == message.date <= cutoff

\* message.date < cutoff_date
TooOld(message, cutoff) == message.date < cutoff

\* The loop ends: the iterator is exhausted, or the break at the first
\* message with a body that is older than the cutoff.
LoopEnds ==
    \/ pos > Len(messages)
    \/ /\ pos <= Len(messages)
       /\ messages[pos].message.nonempty
       /\ TooOld(messages[pos], cutoff_date)

\* One turn of the loop body.
LoopBody ==
    /\ pc = "iter"
    /\ pos <= Len(messages)
    /\ LET message == messages[pos]
           parsed == parse_post(message, CHANNEL)
       IN IF ~message.message.nonempty
          THEN UNCHANGED <<seen_ids, session>>
          ELSE /\ ~TooOld(message, cutoff_date)
               /\ seen_ids' = SeenAdd(seen_ids, message, parsed)
               /\ session' = IF parsed = None THEN session
                             ELSE Upsert(session, parsed[1], utcnow)
    /\ pos' = pos + 1
    /\ UNCHANGED <<RESET_DB, utcnow, channel, db, pc, messages, cutoff_date,
                   db0, before_mark, settled>>
    /\ UNCHANGED <<running, apart>>

\* mutant: the deletion step runs in a handler of the failure
IterRaisesThenMarks ==
    /\ pc = "iter"
    /\ db' = MarkDeleted(session, CHANNEL, ToMark(session, CHANNEL, seen_ids))
    /\ session' = db'
    /\ pc' = "raised_iter"
    /\ UNCHANGED <<RESET_DB, utcnow, channel, messages, pos, seen_ids,
                   cutoff_date, db0, before_mark, settled>>
    /\ running' = running - 1
    /\ UNCHANGED apart

\* The message source raises (or the task is cancelled) while the loop
\* waits for the next message; sync_job closes the session, which rolls the
\* open transaction back, and the exception leaves the job.
IterRaises ==
    /\ pc = "iter"
    /\ session' = db
    /\ pc' = "raised_iter"
    /\ UNCHANGED <<RESET_DB, utcnow, channel, db, messages, pos, seen_ids,
                   cutoff_date, db0, before_mark, settled>>
    /\ running' = running - 1
    /\ UNCHANGED apart

\* The table the deletion step leaves in the session.
Marked ==
    LET to_mark == ToMark(session, CHANNEL, seen_ids)
    IN IF to_mark # {} THEN MarkDeleted(session, CHANNEL, to_mark) ELSE session

\* The deletion step and the commit.
FinishSync ==
    /\ pc = "iter"
    /\ LoopEnds
    /\ before_mark' = session
    /\ db' = Marked
    /\ session' = db'
    /\ pc' = "done"
    /\ UNCHANGED <<RESET_DB, utcnow, channel, messages, pos, seen_ids,
                   cutoff_date, db0, settled>>
    /\ UNCHANGED <<running, apart>>

\* The deletion step, and a commit that raises.
CommitRaises ==
    /\ pc = "iter"
    /\ LoopEnds
    /\ before_mark' = session
    /\ db' = RolledBack(db, Marked)
    /\ session' = db'
    /\ pc' = "raised_commit"
    /\ UNCHANGED <<RESET_DB, utcnow, channel, messages, pos, seen_ids,
                   cutoff_date, db0, settled>>
    /\ running' = running - 1
    /\ UNCHANGED apart

\* sync_job returns; the scheduler waits for the next run.
JobFinished ==
    /\ pc = "done"
    /\ pc' = "idle"
    /\ settled' = Some(db)
    /\ db0' = db
    /\ before_mark' = {}
    /\ UNCHANGED <<RESET_DB, utcnow, channel, db, session, messages, pos,
                   seen_ids, cutoff_date>>
    /\ running' = running - 1
    /\ UNCHANGED apart

\* ------------------------------------------------------------ environment
Tick ==
    /\ pc = "idle"
    /\ utcnow < MaxMsgId + MaxTicks
    /\ utcnow' = utcnow + 1
    /\ settled' = None
    /\ UNCHANGED <<RESET_DB, channel, db, session, pc, messages, pos,
                   seen_ids, cutoff_date, db0, before_mark>>
    /\ UNCHANGED <<running, apart>>

\* An author edits a message of the channel.
EditMessage ==
    /\ pc = "idle"
    /\ \E i \in MsgIds, t \in Texts :
          /\ channel[i] # None
          /\ channel[i][1].message # t
          /\ channel' = [channel EXCEPT ![i] = Some([channel[i][1] EXCEPT !.message = t])]
    /\ settled' = None
    /\ UNCHANGED <<RESET_DB, utcnow, db, session, pc, messages, pos,
                   seen_ids, cutoff_date, db0, before_mark>>
    /\ UNCHANGED <<running, apart>>

\* An author removes a message from the channel.
DeleteMessage ==
    /\ pc = "idle"
    /\ \E i \in MsgIds :
          /\ channel[i] # None
          /\ channel' = [channel EXCEPT ![i] = None]
    /\ settled' = None
    /\ UNCHANGED <<RESET_DB, utcnow, db, session, pc, messages, pos,
                   seen_ids, cutoff_date, db0, before_mark>>
    /\ UNCHANGED <<running, apart>>

Next ==
    \/ StartSync
    \/ GetEntityRaises
    \/ LoopBody
    \/ IterRaises
    \/ FinishSync
    \/ CommitRaises
    \/ JobFinished
    \/ Tick
    \/ EditMessage
    \/ DeleteMessage

Spec == Init /\ [][Next]_vars

Raised == pc \in {"raised_entity", "raised_iter", "raised_commit"}

TypeOK ==
    /\ PrimaryKey(db)
    /\ pc \in {"idle", "iter", "done", "raised_entity", "raised_iter", "raised_commit"}


\* ----------------------------------------------------------------- claims
ChannelRows(s) == {r \in s : r.channel_id = CHANNEL}

Tombstoned(s, id) == \E q \in s : Identity(q) = <<CHANNEL, id>> /\ q.deleted

\* The rows of the channel that the deletion step of this pass has to mark.
Disappeared ==
    {r \in ChannelRows(before_mark) : ~r.deleted /\ r.source_id \notin seen_ids}

\* C1: after a completed pass every row of the channel that was non-deleted
\* before the deletion step and whose source_id is not in the seen set is
\* still in the table under its identity, with deleted = TRUE.
C1_SoftDeleteOnDisappearance ==
    pc = "done" => \A r \in Disappeared : Tombstoned(db, r.source_id)

C1_Witness == pc = "done" /\ Disappeared # {}

\* The messages of the window the loop of this pass has handed to parse_post.
Inspected ==
    {k \in 1..Len(messages) :
        /\ k < pos
        /\ messages[k].message.nonempty
        /\ messages[k].date >= cutoff_date}

\* The inspected messages a guard of the builder rejects (rented, no kind
\* tag, too few key attributes).
SeenRejected == {k \in Inspected : ~PassesGuards(messages[k].message)}

\* The rows that were live when the pass began and whose message the pass
\* inspected and rejected.
LiveButRejected ==
    {r \in ChannelRows(db0) :
        /\ ~r.deleted
        /\ \E k \in SeenRejected : messages[k].id = r.source_id}

\* C2 as stated: a live row whose message is in the window and is rejected
\* by the builder is deleted = TRUE when the pass ends.
C2_Original ==
    pc = "done" => \A r \in LiveButRejected : Tombstoned(db, r.source_id)

\* C2 as amended: such a row is never marked by that pass, because its
\* source_id is in the seen set; without the reset it stays exactly as it
\* was.
C2_RejectedStaysLive ==
    pc = "done" =>
        \A r \in LiveButRejected :
            /\ ~Tombstoned(db, r.source_id)
            /\ ~RESET_DB => r \in db

C2_Witness ==
    /\ pc = "done"
    /\ ~RESET_DB
    /\ \E r \in LiveButRejected :
          \E k \in SeenRejected :
              messages[k].id = r.source_id /\ messages[k].message.RE_RENTED

\* C3: a pass without reset that runs right after a completed pass, with
\* the channel and the cutoff unchanged, leaves the table as that pass left
\* it.
C3_SyncIdempotent ==
    (pc = "done" /\ settled # None /\ ~RESET_DB) => db = settled[1]

C3_Witness ==
    /\ pc = "done"
    /\ settled # None
    /\ ~RESET_DB
    /\ seen_ids # {}
    /\ \E r \in ChannelRows(db) : r.deleted /\ r.source_id \notin seen_ids
    /\ \E r \in ChannelRows(db) : ~r.deleted

C5_NoDeletionAfterFailedIteration ==
    pc = "raised_iter" =>
        \A r \in db0 : ~r.deleted =>
            \A q \in db : Identity(q) = Identity(r) => ~q.deleted

C5_Witness ==
    /\ pc = "raised_iter"
    /\ \E r \in ChannelRows(db0) :
          ~r.deleted /\ r.source_id \notin seen_ids /\ r \in db

\* C6 as stated: everything a pass changes is committed in one commit at
\* its end, so while the pass runs and after it has failed the committed
\* table is the table the pass began with.
C6_Original == (pc = "iter" \/ Raised) => db = db0

\* C6 as amended: the reset deletion is committed on its own before the
\* iteration; everything else is committed in one commit at the end, so
\* while the pass runs and after it has failed the committed table is the
\* table the pass began with, less the channel's rows once the reset ran.
C6_AtomicButForReset ==
    (pc = "iter" \/ Raised) =>
        db = IF RESET_DB /\ pc # "raised_entity"
             THEN ResetDelete(db0, CHANNEL) ELSE db0

C6_Witness == pc = "raised_commit" /\ Disappeared # {}

Accepted == {k \in Inspected : PassesGuards(messages[k].message)}

\* The row of the table carries the values parsed from the message.
CarriesParsed(q, kw) ==
    /\ q.type = kw.type
    /\ q.district = kw.district
    /\ q.metro = kw.metro
    /\ q.address = kw.address
    /\ q.rooms = kw.rooms
    /\ q.size_sqm = kw.size_sqm
    /\ q.price = kw.price

\* C8: after a completed pass every accepted message has a row under its
\* identity with deleted = FALSE and the newly parsed kind, district, metro,
\* address, rooms, size and price.
C8_AcceptedIsUpserted ==
    pc = "done" =>
        \A k \in Accepted :
            \E q \in db :
                /\ Identity(q) = <<CHANNEL, messages[k].id>>
                /\ ~q.deleted
                /\ CarriesParsed(q, PostKwargs(messages[k].message, CHANNEL, messages[k].id))

\* C10: after a completed pass with the reset the rows of the channel are
\* the rows of the accepted messages of the window, none of them deleted.
C10_ResetLeavesWindow ==
    (pc = "done" /\ RESET_DB) =>
        /\ {r.source_id : r \in ChannelRows(db)} = {messages[k].id : k \in Accepted}
        /\ \A r \in ChannelRows(db) : ~r.deleted

--------------------------------------------------------------------------
\* The bot and the dump script read the table the scheduler writes.

\* The filters dictionary of a search; an absent key and None are the same
\* to filters.get.
Filters(type, districts, max_price, rooms, pets_allowed, features) ==
    [type |-> type, districts |-> districts, max_price |-> max_price,
     rooms |-> rooms, pets_allowed |-> pets_allowed, features |-> features]

\* Python's truth value of an optional list: None and [] are false.
Truthy(opt) == opt # None /\ opt[1] # {}

\* The rooms condition with the button "4+" taken as exactly four.
RoomsCondExactlyFour(r, rooms_sel) ==
    /\ r.rooms # None
    /\ r.rooms[1] \in rooms_sel

\* The rooms condition: studio, 4 and more, and the explicit numbers.
RoomsCond(r, rooms_sel) ==
    /\ r.rooms # None
    /\ \/ 0 \in rooms_sel /\ r.rooms[1] = 0
       \/ 4 \in rooms_sel /\ r.rooms[1] >= 4
       \/ r.rooms[1] \in rooms_sel \ {0, 4}

\* The query with the filter on the deleted flag left out.
SearchQueryWithDeleted(filters, s) ==
    {r \in s :
        /\ filters.type # None => r.type = filters.type[1]
        /\ Truthy(filters.districts) =>
              r.district # None /\ r.district[1] \in filters.districts[1]
        /\ filters.max_price # None =>
              r.price # None /\ r.price[1] <= filters.max_price[1]
        /\ Truthy(filters.rooms) => RoomsCond(r, filters.rooms[1])
        /\ filters.pets_allowed = Some(TRUE) =>
              r.pets \in {Some("allowed"), Some("by_agreement")}}

\* The query search_posts builds, up to the features filter. A comparison
\* with a NULL column is not true.
SearchQuery(filters, s) ==
    {r \in s :
        /\ ~r.deleted
        /\ filters.type # None => r.type = filters.type[1]
        /\ Truthy(filters.districts) =>
              r.district # None /\ r.district[1] \in filters.districts[1]
        /\ filters.max_price # None =>
              r.price # None /\ r.price[1] <= filters.max_price[1]
        /\ Truthy(filters.rooms) => RoomsCond(r, filters.rooms[1])
        /\ filters.pets_allowed = Some(TRUE) =>
              r.pets \in {Some("allowed"), Some("by_agreement")}}

\* order_by(Post.created_at.desc()): the lists that hold each row once,
\* newest first; rows created at the same time come in any order.
OrderByCreatedDesc(rows) ==
    {l \in [1..Cardinality(rows) -> rows] :
        /\ \A i, j \in DOMAIN l : i # j => l[i] # l[j]
        /\ \A i, j \in DOMAIN l :
              i < j => l[i].created_at[1] >= l[j].created_at[1]}

\* search_posts: the rows it returns and the lists it may return them as.
\* With a features filter the candidates are filtered in Python by reading
\* post.features, which the mapped class does not have: the first candidate
\* raises AttributeError (that branch has no order_by either).
search_posts(filters, s) ==
    LET candidates == SearchQuery(filters, s)
    IN IF Truthy(filters.features) /\ candidates # {}
       THEN [rows |-> {}, raised |-> TRUE, lists |-> {<<>>}]
       ELSE [rows |-> candidates, raised |-> FALSE,
             lists |-> OrderByCreatedDesc(candidates)]

\* The districts of the live rows of a type.
DistinctLiveDistricts(s, post_type) ==
    {r.district[1] :
        r \in {q \in s : ~q.deleted /\ q.type = post_type
                                    /\ q.district # None}}

\* The filters the searches of the model are drawn from.
FilterSpace ==
    {Filters(t, d, m, r, p, f) :
        t \in {None, Some("rent"), Some("sell")},
        d \in {None, Some({"Vake"})},
        m \in {None, Some(700), Some(800)},
        r \in {None, Some({1}), Some({0, 4})},
        p \in {None, Some(TRUE)},
        f \in {None, Some({"Oven"})}}

\* A user's search: finalize_and_search, which leaves the conversation on
\* the results page.
SearchPosts ==
    /\ view.kind # "search"
    /\ \E filters \in FilterSpace :
          LET found == search_posts(filters, db)
          IN \E l \in found.lists :
                view' = [NoView EXCEPT !.kind = "search",
                                       !.filters = Some(filters),
                                       !.rows = found.rows,
                                       !.list = l,
                                       !.raised = found.raised]
    /\ UNCHANGED <<job, text, result, state, user_data, cache, last>>

\* The repeating job that fills DISTRICTS_CACHE.
RefreshDistricts ==
    /\ cache' = [t \in {"rent", "sell"} |-> DistinctLiveDistricts(db, t)]
    /\ view' = [NoView EXCEPT !.kind = "districts", !.districts = cache']
    /\ UNCHANGED <<job, text, result, state, user_data, last>>

\* print_posts.main: every row of the table and the distinct districts of
\* all of them.
PrintPosts ==
    /\ view' = [NoView EXCEPT !.kind = "dump",
                  !.rows = db,
                  !.districts = [t \in {"rent", "sell"} |->
                                    {r.district[1] :
                                        r \in {q \in db : q.district # None}}]]
    /\ UNCHANGED <<job, text, result, state, user_data, cache, last>>

\* "New search" on the results page.
NewSearch ==
    /\ view.kind = "search"
    /\ view' = NoView
    /\ UNCHANGED <<job, text, result, state, user_data, cache, last>>

\* A row of the channel as an earlier run stored it: a studio, one bedroom
\* or five, created when its message was seen.
SearchRow(id, rooms, deleted) ==
    [StoredPost(CHANNEL, id, ListingA, deleted)
        EXCEPT !.rooms = Some(rooms), !.created_at = Some(id)]

\* The tables a run of the bot or of the dump script may find.
SearchTables ==
    {{SearchRow(i, c[i][1][1], c[i][1][2]) : i \in {j \in MsgIds : c[j] # None}}
        \cup OtherRows :
     c \in [MsgIds -> {None} \cup {Some(<<n, d>>) : n \in {0, 1, 5},
                                                   d \in BOOLEAN}]}

SearchInit ==
    /\ RESET_DB = FALSE
    /\ utcnow = MaxMsgId
    /\ channel = [i \in MsgIds |-> None]
    /\ db \in SearchTables
    /\ session = db
    /\ pc = "idle"
    /\ messages = <<>>
    /\ pos = 1
    /\ seen_ids = {}
    /\ cutoff_date = 0
    /\ db0 = db
    /\ before_mark = {}
    /\ settled = None
    /\ running = 0
    /\ view = NoView
    /\ text = <<>>
    /\ result = None
    /\ NoConversation

SearchNext == SearchPosts \/ NewSearch \/ RefreshDistricts \/ PrintPosts

SpecSearch == SearchInit /\ [][SearchNext]_vars

\* Every row a view shows is live, and every district it lists is the
\* district of a live row of that type.
ShowsOnlyLive ==
    /\ \A r \in view.rows : ~r.deleted
    /\ \A t \in {"rent", "sell"} :
          view.districts[t] \subseteq DistinctLiveDistricts(db, t)

\* The rows a search would return if deleted rows counted.
HiddenByDeletion ==
    IF view.filters = None THEN {}
    ELSE {r \in SearchQueryWithDeleted(view.filters[1], db) : r.deleted}

\* Original statement of C15: no view of the table, the dump of print_posts
\* included, shows a row with deleted = TRUE or a district taken from one.
C15_Original == view.kind # "none" => ShowsOnlyLive

\* C15: search_posts returns only rows with deleted = FALSE, whatever the
\* filters, and the district lists offered to users are computed from rows
\* with deleted = FALSE only; the dump of print_posts is not such a view.
C15_SearchHidesDeleted == view.kind \in {"search", "districts"} => ShowsOnlyLive

\* A search that returned rows while a deleted row matched its filters.
C15_Witness ==
    /\ view.kind = "search"
    /\ view.rows # {}
    /\ HiddenByDeletion # {}

\* The query without one of its filters.
Without(filters, key) == [filters EXCEPT ![key] = None]

\* C23: for every filter, with or without districts, price, rooms, pets and
\* features, a search returns a result, which holds exactly the non-deleted
\* rows that match, newest first by creation time.
C23_SearchExactAndOrdered ==
    view.kind = "search" =>
        /\ ~view.raised
        /\ view.rows = {r \in SearchQuery(view.filters[1], db) :
                           ~Truthy(view.filters[1].features)}
        /\ {view.list[i] : i \in DOMAIN view.list} = view.rows
        /\ \A i, j \in DOMAIN view.list :
              i < j => view.list[i].created_at[1] >= view.list[j].created_at[1]

\* The button a number of bedrooms falls under.
Bucket(n) == IF n >= 4 THEN 4 ELSE n

--------------------------------------------------------------------------
\* The states of a pass that has entered the loop.
InPass == pc \in {"iter", "done", "raised_iter", "raised_commit"}

\* The rows of the channel that carry the identity of a message.
RowsOf(s, id) == {r \in ChannelRows(s) : r.source_id = id}

\* The positions of the messages with an empty body the loop has passed.
SkippedEmpty ==
    {k \in 1..Len(messages) : k < pos /\ ~messages[k].message.nonempty}

\* C11: the seen set is exactly the set of the non-empty messages the loop
\* has inspected inside the window, whatever the parser made of them; a
\* message with an empty body is passed over and is not in the seen set; and
\* a message the guards reject leaves the rows of its identity as they were.
C11_SeenWhateverVerdict ==
    InPass =>
        /\ seen_ids = {messages[k].id : k \in Inspected}
        /\ \A k \in SkippedEmpty : messages[k].id \notin seen_ids
        /\ pc = "iter" =>
              \A k \in SeenRejected :
                  RowsOf(session, messages[k].id) = RowsOf(db, messages[k].id)

\* A pass that went on after a rejected message, passed over an empty one
\* and came to its end.
C11_Witness ==
    /\ pc = "done"
    /\ \E k \in SeenRejected :
          /\ messages[k].id \in seen_ids
          /\ \E j \in SkippedEmpty : j > k

\* The positions from the first message older than the cutoff onwards.
FromFirstOld ==
    {k \in 1..Len(messages) :
        \E j \in 1..k : messages[j].date < cutoff_date}

\* C12: the messages come newest first; the first message older than the
\* cutoff and every message after it are never added to the seen set and
\* their rows are neither inserted nor updated; a non-empty message dated
\* exactly at the cutoff is processed by a pass that reaches its end.
C12_StopsAtCutoff ==
    InPass =>
        /\ \A k, j \in 1..Len(messages) :
              k < j => messages[k].id > messages[j].id
        /\ \A k \in FromFirstOld :
              /\ messages[k].id \notin seen_ids
              /\ pc = "iter" =>
                    RowsOf(session, messages[k].id) = RowsOf(db, messages[k].id)
        /\ pc = "done" =>
              \A k \in 1..Len(messages) :
                  (messages[k].message.nonempty
                      /\ messages[k].date = cutoff_date)
                  => messages[k].id \in seen_ids

\* A pass that processed a message dated at the cutoff and stopped at the
\* next one, which is older.
C12_Witness ==
    /\ pc = "done"
    /\ \E k \in 1..Len(messages) :
          /\ messages[k].date = cutoff_date
          /\ messages[k].id \in seen_ids
          /\ pos = k + 1
          /\ pos <= Len(messages)
          /\ messages[pos].message.nonempty
          /\ messages[pos].date < cutoff_date

C14_RetriedAfterFailure == pc = "raised_iter" => ENABLED StartSync

\* The table the loop of the pass starts from: the committed table, less
\* the channel's rows once the reset ran.
PassBase == IF RESET_DB THEN ResetDelete(db0, CHANNEL) ELSE db0

\* C27 (a): after a completed pass every non-deleted row of the channel has
\* its source_id in the seen set of the pass.
LiveRowsSeen ==
    pc = "done" =>
        \A r \in ChannelRows(db) : ~r.deleted => r.source_id \in seen_ids

\* C27: after a completed pass (a) every non-deleted row of the channel has
\* its source_id in the seen set of the pass, and (b) every message of the
\* window that passed the builder's guards has a row under its identity
\* with deleted = FALSE.
C27_CompletedPassInvariant ==
    /\ LiveRowsSeen
    /\ pc = "done" =>
          \A k \in Accepted :
              \E q \in db : /\ Identity(q) = <<CHANNEL, messages[k].id>>
                            /\ ~q.deleted

\* C28: the deleted flag of a committed row changes in two ways only: from
\* TRUE to FALSE by the commit of a pass that accepted a message of its
\* identity, and from FALSE to TRUE by the commit of a completed pass whose
\* seen set does not hold its source_id; so a tombstoned row whose message
\* is seen and rejected, or is outside the window, stays deleted.
C28_DeletedFlagTransitions ==
    [][\A r \in db : \A q \in db' :
          (Identity(q) = Identity(r) /\ q.deleted # r.deleted) =>
              /\ pc = "iter" /\ pc' = "done"
              /\ r.channel_id = CHANNEL
              /\ IF r.deleted
                 THEN \E k \in Accepted : messages[k].id = r.source_id
                 ELSE r.source_id \notin seen_ids]_vars

C28_Witness ==
    /\ pc = "done"
    /\ ~RESET_DB
    /\ \E r \in ChannelRows(db0) :
          /\ ~r.deleted
          /\ r.source_id \notin seen_ids
          /\ [r EXCEPT !.deleted = TRUE] \in db
    /\ \E r \in ChannelRows(db0) :
          /\ r.deleted
          /\ r \in db
          /\ \E k \in SeenRejected : messages[k].id = r.source_id

\* The rows of the other channels.
OtherChannels(s) == {r \in s : r.channel_id # CHANNEL}

C29_WitnessMarked ==
    /\ pc = "done"
    /\ ~RESET_DB
    /\ Disappeared # {}
    /\ \E r \in OtherChannels(db) : ~r.deleted /\ r.source_id \in
                                        {q.source_id : q \in Disappeared}

C31_WitnessTombstone ==
    /\ RESET_DB
    /\ pc = "iter"
    /\ \E r \in ChannelRows(db0) : r.deleted
    /\ ChannelRows(db) = {}

--------------------------------------------------------------------------
\* Message bodies as text, for the parser on its own. A body is a sequence
\* of lines and a line a sequence of tokens separated by blanks: a tag
\* "#v", an emoji, a word, or a number written with the characters of v.

MaxLines == 3

Tag(v) == [k |-> "tag", v |-> v]
Emoji(v) == [k |-> "emoji", v |-> v]
Word(v) == [k |-> "word", v |-> v]
Num(v) == [k |-> "num", v |-> v]

\* The line break between two lines of a body.
NL == [k |-> "nl", v |-> "\n"]

Min(S) == CHOOSE x \in S : \A y \in S : x <= y

\* \d
IsDigit(c) == c \in {"0", "1", "2", "3", "4", "5", "6", "7", "8", "9"}

DigitValue(c) ==
    CASE c = "0" -> 0 [] c = "1" -> 1 [] c = "2" -> 2 [] c = "3" -> 3
      [] c = "4" -> 4 [] c = "5" -> 5 [] c = "6" -> 6 [] c = "7" -> 7
      [] c = "8" -> 8 [] c = "9" -> 9

\* int() of a string of digits
RECURSIVE IntOf(_)
IntOf(digits) ==
    IF digits = <<>> THEN 0
    ELSE 10 * IntOf(SubSeq(digits, 1, Len(digits) - 1))
            + DigitValue(digits[Len(digits)])

\* _clean_int: every character that is not a digit is dropped.
clean_int(s) ==
    LET digits == SelectSeq(s, IsDigit)
    IN IF digits = <<>> THEN None ELSE Some(IntOf(digits))

\* The last n characters of s.
LastN(s, n) == SubSeq(s, IF Len(s) > n THEN Len(s) - n + 1 ELSE 1, Len(s))

\* Where the run of digits that ends at position e of v starts (e + 1 when
\* v[e] is not a digit).
RunStart(v, e) == Min({b \in 1..(e + 1) : \A i \in b..e : IsDigit(v[i])})

\* _clean_float of the text RE_SIZE captures: a whole number stands for
\* itself, a decimal one is kept as its two parts.
clean_float(s) ==
    LET e == Min({i \in 1..(Len(s) + 1) : i = Len(s) + 1 \/ ~IsDigit(s[i])})
    IN IF e = Len(s) + 1 THEN IntOf(s)
       ELSE [whole |-> IntOf(SubSeq(s, 1, e - 1)),
             frac |-> SubSeq(s, e + 1, Len(s))]

\* The body as one sequence of tokens, the lines joined by line breaks.
RECURSIVE Flatten(_)
Flatten(body) ==
    IF body = <<>> THEN <<>>
    ELSE IF Len(body) = 1 THEN body[1]
    ELSE body[1] \o <<NL>> \o Flatten(Tail(body))

\* \s*: the position of the next token after position i, line breaks
\* skipped; 0 when there is none.
NextToken(flat, i) ==
    LET js == {j \in (i + 1)..Len(flat) : flat[j].k # "nl"}
    IN IF js = {} THEN 0 ELSE Min(js)

\* A tag whose text begins, whatever the case, with one of the prefixes.
TagWith(t, prefixes) == t.k = "tag" /\ Lower(t.v) \in prefixes

\* re.search of a tag pattern in the whole body. The tags of the model that
\* begin with "rent" are #Rent and #Rented.
RE_RENTED(flat) == \E i \in 1..Len(flat) : TagWith(flat[i], {"rented"})
RE_RENT(flat) == \E i \in 1..Len(flat) : TagWith(flat[i], {"rent", "rented"})
RE_SELL(flat) == \E i \in 1..Len(flat) : TagWith(flat[i], {"sell", "sale"})

\* The digits RE_ROOMS captures in a tag "#<digits>Bed".
BedDigits(t) ==
    IF t.k # "tag" THEN <<>>
    ELSE CASE t.v = "0Bed" -> <<"0">>
           [] t.v = "1Bed" -> <<"1">>
           [] OTHER -> <<>>

\* RE_ROOMS.search
RE_ROOMS(flat) ==
    LET js == {j \in 1..Len(flat) : BedDigits(flat[j]) # <<>>}
    IN IF js = {} THEN None ELSE Some(BedDigits(flat[Min(js)]))

\* RE_PETS.search
RE_PETS(flat) ==
    LET js == {j \in 1..Len(flat) : TagWith(flat[j], DOMAIN PETS_MAPPING)}
    IN IF js = {} THEN None ELSE Some(flat[Min(js)].v)

\* The first run of [0-9.,] that begins with a digit inside a token.
FirstDigits(t) ==
    IF t.k = "num"
    THEN LET e == Min({i \in 1..(Len(t.v) + 1) :
                          i = Len(t.v) + 1
                          \/ ~(IsDigit(t.v[i]) \/ t.v[i] \in {".", ","})})
         IN SubSeq(t.v, 1, e - 1)
    ELSE BedDigits(t)

\* Where the match of RE_PRICE that starts at the money bag of position i
\* ends: at the first token with a digit on the rest of the line, or, when
\* the line has none, at a number that opens the next non-blank line (.*?
\* stays on the line, \s* crosses line breaks); 0 when there is no match.
PriceEnd(flat, i) ==
    LET eol == Min({j \in (i + 1)..(Len(flat) + 1) :
                       j = Len(flat) + 1 \/ flat[j].k = "nl"})
        js == {j \in (i + 1)..(eol - 1) : FirstDigits(flat[j]) # <<>>}
        nx == NextToken(flat, eol - 1)
    IN IF js # {} THEN Min(js)
       ELSE IF nx # 0 /\ flat[nx].k = "num" THEN nx
       ELSE 0

\* RE_PRICE.findall from position i on: the captured texts, in order.
RECURSIVE RE_PRICE(_, _)
RE_PRICE(flat, i) ==
    IF i > Len(flat) THEN <<>>
    ELSE IF flat[i] = Emoji("moneybag") /\ PriceEnd(flat, i) # 0
         THEN <<FirstDigits(flat[PriceEnd(flat, i)])>>
                 \o RE_PRICE(flat, PriceEnd(flat, i) + 1)
    ELSE RE_PRICE(flat, i + 1)

\* The positions of the numbers that a word of the given set follows.
NumbersBefore(flat, units) ==
    {j \in 1..Len(flat) :
        /\ flat[j].k = "num"
        /\ IsDigit(flat[j].v[Len(flat[j].v)])
        /\ NextToken(flat, j) # 0
        /\ flat[NextToken(flat, j)].k = "word"
        /\ Lower(flat[NextToken(flat, j)].v) \in units}

\* RE_SIZE.search: up to four digits and an optional decimal part, right
\* before the unit.
RE_SIZE(flat) ==
    LET js == NumbersBefore(flat, {"sq.m", "sqm", "m2"})
        v == flat[Min(js)].v
        b == RunStart(v, Len(v))
        bw == RunStart(v, b - 2)
    IN IF js = {} THEN None
       ELSE IF b > 2 /\ v[b - 1] = "." /\ bw <= b - 2
            THEN Some(LastN(SubSeq(v, bw, b - 2), 4) \o SubSeq(v, b - 1, Len(v)))
       ELSE Some(LastN(SubSeq(v, b, Len(v)), 4))

\* RE_FLOOR.search: one or two digits, an optional "/" and one or two
\* digits, right before "Floor".
RE_FLOOR(flat) ==
    LET js == NumbersBefore(flat, {"floor"})
        v == flat[Min(js)].v
        b == RunStart(v, Len(v))
        bw == RunStart(v, b - 2)
    IN IF js = {} THEN None
       ELSE IF b > 2 /\ v[b - 1] = "/" /\ bw <= b - 2 /\ Len(v) - b + 1 <= 2
            THEN Some(<<LastN(SubSeq(v, bw, b - 2), 2), SubSeq(v, b, Len(v))>>)
       ELSE Some(<<LastN(SubSeq(v, b, Len(v)), 2), <<>> >>)

\* RE_ADDRESS.search: after the first pin that a word or a number follows,
\* the tokens up to the next tag or the end of the line.
RE_ADDRESS(flat) ==
    LET js == {j \in 1..Len(flat) :
                  /\ flat[j] = Emoji("pin")
                  /\ NextToken(flat, j) # 0
                  /\ flat[NextToken(flat, j)].k \in {"word", "num"}}
        b == NextToken(flat, Min(js))
        e == Min({j \in (b + 1)..(Len(flat) + 1) :
                     j = Len(flat) + 1 \/ flat[j].k \in {"tag", "nl"}})
    IN IF js = {} THEN None
       ELSE Some([i \in 1..(e - b) |-> flat[b + i - 1].v])

\* RE_FEATURES.findall from position i on.
RECURSIVE RE_FEATURES(_, _)
RE_FEATURES(flat, i) ==
    IF i > Len(flat) THEN <<>>
    ELSE IF /\ flat[i] = Emoji("check")
            /\ NextToken(flat, i) # 0
            /\ flat[NextToken(flat, i)].k = "tag"
         THEN <<flat[NextToken(flat, i)].v>> \o RE_FEATURES(flat, i + 1)
    ELSE RE_FEATURES(flat, i + 1)

\* A header search that does not stop at the first non-blank line: the
\* first line that begins with a tag.
first_line_with_tag(body) ==
    LET ls == {l \in 1..Len(body) : body[l] # <<>> /\ body[l][1].k = "tag"}
    IN IF ls = {} THEN None ELSE Some(body[Min(ls)])

\* _first_non_empty_line
first_non_empty_line(body) ==
    LET ls == {l \in 1..Len(body) : body[l] # <<>>}
    IN IF ls = {} THEN None ELSE Some(body[Min(ls)])

\* RE_HEADER_DISTRICT.match: the line begins with a tag.
RE_HEADER_DISTRICT(line) ==
    IF line[1].k = "tag" THEN Some(line[1].v) ELSE None

\* RE_HEADER_METRO.search: a metro sign with a tag next to it.
RE_HEADER_METRO(line) ==
    LET js == {j \in 1..(Len(line) - 1) :
                  line[j] = Emoji("metro") /\ line[j + 1].k = "tag"}
    IN IF js = {} THEN None ELSE Some(line[Min(js) + 1].v)

\* parse_header_first_line: the pair (district, metro); three Nones when
\* the body has no non-blank line.
parse_header_first_line(body) ==
    LET first_line == first_non_empty_line(body)
    IN IF first_line = None THEN <<None, None, None>>
       ELSE <<RE_HEADER_DISTRICT(first_line[1]),
              RE_HEADER_METRO(first_line[1])>>

\* What the patterns of parse_post find in a body, cleaned as the code
\* cleans it.
Findings(body) ==
    LET flat == Flatten(body)
        header == parse_header_first_line(body)
        prices == RE_PRICE(flat, 1)
        floor == RE_FLOOR(flat)
        size == RE_SIZE(flat)
        rooms == RE_ROOMS(flat)
    IN [nonempty |-> body # <<>>,
        RE_RENTED |-> RE_RENTED(flat),
        RE_RENT |-> RE_RENT(flat),
        RE_SELL |-> RE_SELL(flat),
        district |-> header[1],
        metro |-> header[2],
        address |-> RE_ADDRESS(flat),
        rooms |-> IF rooms = None THEN None ELSE clean_int(rooms[1]),
        size_sqm |-> IF size = None THEN None ELSE Some(clean_float(size[1])),
        floor |-> IF floor = None THEN None ELSE clean_int(floor[1][1]),
        total_floors |-> IF floor = None THEN None ELSE clean_int(floor[1][2]),
        price |-> IF prices = <<>> THEN None
                  ELSE clean_int(prices[Len(prices)]),
        pets |-> RE_PETS(flat),
        features |-> RE_FEATURES(flat, 1)]

\* The lines the bodies of the model are made of.
HeaderLine == <<Tag("Vake"), Emoji("metro"), Tag("Rustaveli")>>
RentLine ==
    <<Emoji("building"), Tag("1Bed"), Word("Apartment"), Tag("Rent"),
      Num(<<"7", "5">>), Word("Sq.m")>>
SaleLine ==
    <<Emoji("building"), Tag("0Bed"), Tag("Sale"),
      Num(<<"1", "0">>), Word("Floor")>>
RentSaleLine == <<Emoji("building"), Tag("Rent"), Tag("Sell")>>
RentedLine == <<Emoji("exclamation"), Tag("Rented")>>
PriceLine == <<Emoji("moneybag"), Num(<<"8", "0", "0">>), Word("$")>>
SalePriceLine ==
    <<Emoji("moneybag"), Num(<<"2", "3", "5", ".", "0", "0", "0">>), Word("$")>>
AddressLine == <<Emoji("pin"), Num(<<"1">>), Word("Tskneti")>>
BlankLine == <<>>
FeaturesLine ==
    <<Emoji("check"), Tag("Oven"), Emoji("check"), Tag("Oven"),
      Emoji("cross"), Word("Dishwasher"), Emoji("check"), Word("Piano")>>
FloorLine == <<Num(<<"9", "/", "1", "2">>), Word("Floor")>>

Lines ==
    {HeaderLine, RentLine, SaleLine, RentSaleLine, RentedLine, PriceLine,
     SalePriceLine, AddressLine, BlankLine, FeaturesLine, FloorLine}

\* The bodies handed to the parser: up to MaxLines lines.
Bodies == UNION {[1..n -> Lines] : n \in 0..MaxLines}

\* parse_post on a body: the value it returns and the return statement it
\* leaves through.  A run makes one call.
ParsePost ==
    /\ result = None
    /\ result' = Some([op |-> "parse_post",
                       value |-> parse_post(Message(1, 0, Findings(text)),
                                            CHANNEL),
                       return |-> ReturnPoint(Findings(text))])
    /\ UNCHANGED <<job, view, text, state, user_data, cache, last>>

\* parse_header_first_line on a body.
ParseHeader ==
    /\ result = None
    /\ result' = Some([op |-> "parse_header_first_line",
                       value |-> parse_header_first_line(text),
                       return |-> "return"])
    /\ UNCHANGED <<job, view, text, state, user_data, cache, last>>

\* The parser is handed a body; nothing else is going on.
ParseInit ==
    /\ RESET_DB = FALSE
    /\ utcnow = MaxMsgId
    /\ channel = [i \in MsgIds |-> None]
    /\ db = OtherRows
    /\ session = db
    /\ pc = "idle"
    /\ messages = <<>>
    /\ pos = 1
    /\ seen_ids = {}
    /\ cutoff_date = 0
    /\ db0 = db
    /\ before_mark = {}
    /\ settled = None
    /\ running = 0
    /\ view = NoView
    /\ text \in Bodies
    /\ result = None
    /\ NoConversation

\* The values the normalizers are handed: no token, tokens as the header
\* captures them, and the same with blanks around or inside them.
NormalizerInputs ==
    {None} \cup {Some(t) : t \in {"Vake", "Dighomi", "DIGHOMI", " Vake ",
                                  " Dighomi", "Didi Dighomi",
                                  "Libertysquare", "Liberty Square ", " "}}

\* normalize_district on a value.
NormalizeDistrict ==
    /\ result = None
    /\ \E d \in NormalizerInputs :
          result' = Some([op |-> "normalize_district", arg |-> d,
                          value |-> normalize_district(d),
                          return |-> "return"])
    /\ UNCHANGED <<job, view, text, state, user_data, cache, last>>

\* normalize_metro on a value.
NormalizeMetro ==
    /\ result = None
    /\ \E m \in NormalizerInputs :
          result' = Some([op |-> "normalize_metro", arg |-> m,
                          value |-> normalize_metro(m),
                          return |-> "return"])
    /\ UNCHANGED <<job, view, text, state, user_data, cache, last>>

ParseNext == ParsePost \/ ParseHeader \/ NormalizeDistrict \/ NormalizeMetro

SpecParse == ParseInit /\ [][ParseNext]_vars

\* The tokens of the body.
Tokens == {Flatten(text)[i] : i \in 1..Len(Flatten(text))}

\* parse_post has been applied to the body.
Parsed == result # None /\ result[1].op = "parse_post"

\* C16: a non-empty body that contains #Rented anywhere is rejected,
\* whatever else it contains, and it is rejected as rented: through the
\* return that precedes kind detection and field extraction.
C16_RentedRejectedFirst ==
    (Parsed /\ Tag("Rented") \in Tokens) =>
        /\ result[1].value = None
        /\ result[1].return = "AlreadyRented"

\* A rented notice that also carries a kind tag and three key fields.
C16_Witness ==
    /\ Parsed
    /\ Tag("Rented") \in Tokens
    /\ Tag("Rent") \in Tokens
    /\ Present(PostKwargs(Findings(text), CHANNEL, 1)) >= 3
    /\ result[1].return = "AlreadyRented"

\* The body carries a kind tag: #Rent, or #Sell or #Sale.
HasRent == Tag("Rent") \in Tokens
HasSell == Tag("Sell") \in Tokens \/ Tag("Sale") \in Tokens

\* C17: a body with #Rent yields a record of kind rent even when it also
\* carries #Sell or #Sale, a body with #Sell or #Sale and no #Rent a record
\* of kind sell, and a body with neither is rejected (the bodies that reach
\* the constructor are meant).
C17_KindFromTags ==
    Parsed =>
        /\ (~HasRent /\ ~HasSell) => result[1].value = None
        /\ result[1].return = "construct" =>
              /\ result[1].value # None
              /\ result[1].value[1].type = IF HasRent THEN "rent" ELSE "sell"

\* C18: for a non-empty body that is not rented and carries a kind tag,
\* parse_post returns a record if and only if at least three of district,
\* price, rooms, size_sqm and address are found.
C18_CompletenessThreshold ==
    (Parsed /\ text # <<>> /\ Tag("Rented") \notin Tokens
            /\ (HasRent \/ HasSell)) =>
        (result[1].value # None
            <=> Present(PostKwargs(Findings(text), CHANNEL, 1))
                   >= MIN_REQUIRED_STRUCTURED_FIELDS)

\* The non-blank lines of the body.
NonBlank == {l \in 1..Len(text) : text[l] # <<>>}

\* A line carries a metro sign with a tag next to it.
HasMetroTag(line) ==
    \E j \in 1..(Len(line) - 1) :
        line[j] = Emoji("metro") /\ line[j + 1].k = "tag"

\* parse_header_first_line has been applied to the body.
HeaderParsed == result # None /\ result[1].op = "parse_header_first_line"

\* C19: district and metro come from the first non-blank line only: the
\* district is the tag that line begins with and is null when it begins
\* with something else; the metro is the tag next to a metro sign of that
\* line and is null when the line has none; later lines do not count.
C19_HeaderLineOnly ==
    (HeaderParsed /\ NonBlank # {}) =>
        LET first == text[Min(NonBlank)]
            value == result[1].value
        IN /\ Len(value) = 2
           /\ value[1] = IF first[1].k = "tag" THEN Some(first[1].v) ELSE None
           /\ ~HasMetroTag(first) => value[2] = None
           /\ value[2] # None =>
                 \E j \in 1..(Len(first) - 1) :
                     /\ first[j] = Emoji("metro")
                     /\ first[j + 1] = Tag(value[2][1])

\* A body whose header-shaped line comes after another non-blank line:
\* neither district nor metro is found.
C19_Witness ==
    /\ HeaderParsed
    /\ NonBlank # {}
    /\ text[Min(NonBlank)][1].k # "tag"
    /\ ~HasMetroTag(text[Min(NonBlank)])
    /\ \E l \in NonBlank : l > Min(NonBlank) /\ text[l] = HeaderLine
    /\ result[1].value = <<None, None>>

\* C20: with several price occurrences in a body the record's price is the
\* integer of the last occurrence, "." and "," stripped (the bodies that
\* reach the constructor are meant).
C20_LastPriceWins ==
    (Parsed /\ result[1].return = "construct"
            /\ Len(RE_PRICE(Flatten(text), 1)) >= 2) =>
        /\ result[1].value # None
        /\ result[1].value[1].price
              = clean_int(RE_PRICE(Flatten(text), 1)
                             [Len(RE_PRICE(Flatten(text), 1))])

\* C21: the record built for an accepted body carries as features the tags
\* that follow a checkmark, in order of appearance and with duplicates kept;
\* a cross-marked item and a checkmark followed by plain text are left out.
C21_FeaturesCollected ==
    (Parsed /\ result[1].return = "construct"
            /\ Emoji("check") \in Tokens) =>
        /\ result[1].value # None
        /\ result[1].value[1].features = RE_FEATURES(Flatten(text), 1)

\* C22: the record built for a body with "a/b Floor" has floor = a and
\* total_floors = b, and for a body with "a Floor" floor = a and
\* total_floors null.
C22_FloorAndTotal ==
    (Parsed /\ result[1].return = "construct"
            /\ RE_FLOOR(Flatten(text)) # None) =>
        /\ result[1].value # None
        /\ result[1].value[1].floor
              = clean_int(RE_FLOOR(Flatten(text))[1][1])
        /\ result[1].value[1].total_floors
              = clean_int(RE_FLOOR(Flatten(text))[1][2])

\* What the claim promises of a normalizer with alias table map on value d.
Normalized(map, d) ==
    IF d = None THEN None
    ELSE IF \E k \in DOMAIN map : k = Lower(StripSpaces(d[1]))
    THEN Some(map[Lower(StripSpaces(d[1]))])
    ELSE Some(StripSpaces(d[1]))

\* C26: for every district or metro token the normalizer returns the alias
\* table's value when the trimmed, space-free, lowercased token is a key of
\* the table, and otherwise the trimmed, space-free token in its original
\* casing; no token gives no token.
C26_NormalizerAliases ==
    /\ (result # None /\ result[1].op = "normalize_district")
          => result[1].value = Normalized(DISTRICT_MAP, result[1].arg)
    /\ (result # None /\ result[1].op = "normalize_metro")
          => result[1].value = Normalized(METRO_MAP, result[1].arg)

C26_Witness ==
    /\ result # None
    /\ result[1].op = "normalize_metro"
    /\ result[1].arg = Some("Libertysquare")
    /\ result[1].value = Some("LibertySquare")

C26_WitnessDistrict ==
    /\ result # None
    /\ result[1].op = "normalize_district"
    /\ result[1].arg = Some(" Dighomi")
    /\ result[1].value = Some("Digomi")

\* ------------------------------------------------------ the conversation
\* context.user_data is a dict: a function whose domain is the set of keys
\* it holds.  A stored None is None, any other stored value v is Some(v);
\* a list of selections is the set of its elements.  The keys last_results,
\* last_filters, page, previous_results and previous_filters are written
\* and read back by the results page alone: they are kept in last.results.
Get(ud, k) == IF k \in DOMAIN ud THEN ud[k] ELSE None

Put(ud, k, v) == [x \in DOMAIN ud \cup {k} |-> IF x = k THEN v ELSE ud[x]]

SetDefault(ud, k, v) == IF k \in DOMAIN ud THEN ud ELSE Put(ud, k, v)

\* sel.remove(val) if val in sel else sel.append(val)
Toggle(sel, val) == IF val \in sel THEN sel \ {val} ELSE sel \cup {val}

\* The states of the ConversationHandler; END is also "no conversation".
States == {"TYPE", "DISTRICTS", "BUDGET", "ROOMS", "PETS", "FEATURES",
           "CONFIRM", "END"}

\* The texts sent at the budget step, as strings of characters.
TNumber == <<"9", "0", "0">>
TPadded == <<" ", "7", "0", "0", " ">>
TSkip   == <<"S", "k", "i", "p">>
TNo     == <<"n", "o">>
TWords  == <<"a", "b", "c">>
TMixed  == <<"<", "9", "0", "0">>

BudgetTexts == {TNumber, TPadded, TSkip, TNo, TWords, TMixed}

\* str.str_strip() on the characters of the model.
RECURSIVE str_strip(_)
str_strip(s) ==
    IF s = <<>> THEN s
    ELSE IF Head(s) = " " THEN str_strip(Tail(s))
    ELSE IF s[Len(s)] = " " THEN str_strip(SubSeq(s, 1, Len(s) - 1))
    ELSE s

\* str.str_lower() on the characters of the model.
str_lower(s) ==
    [i \in 1..Len(s) |-> CASE s[i] = "S" -> "s" [] s[i] = "N" -> "n"
                           [] s[i] = "K" -> "k" [] OTHER -> s[i]]

\* The buttons the model's user presses.
RoomButtons == {"any", "1", "4"}
FeatureButtons == {"Oven"}

\* history: the keys of user_data the user has made a choice for since the
\* conversation was entered with /start or "New search".
Chosen(handler, input, raised) ==
    IF handler \in {"start", "pagination_callback"} THEN {}
    ELSE last.chosen \cup
         (CASE handler = "type_handler" -> {"type"}
            [] handler = "districts_callback" /\ input # <<"districts", "done">>
                 -> {"districts_selected"}
            [] handler = "budget_message"
                 /\ (\/ str_lower(str_strip(input)) \in {<<"s", "k", "i", "p">>, <<"n", "o">>}
                     \/ SelectSeq(input, IsDigit) # <<>>)
                 -> {"max_price"}
            [] handler = "rooms_callback" -> {"rooms_selected"}
            [] handler = "pets_callback" -> {"pets_allowed"}
            [] handler = "features_handler" /\ ~raised
                 /\ input # <<"features", "done">>
                 -> {"features_selected"}
            [] OTHER -> {})

\* The update handled last, what its handler raised and the search results
\* it showed.
Handled(handler, input, raised, results) ==
    [handler |-> handler, input |-> input, raised |-> raised,
     results |-> results, chosen |-> Chosen(handler, input, raised)]

\* The /start command: the entry point, and with allow_reentry the way back
\* to the first question from any state; user_data is left as it is.
start ==
    /\ state' = "TYPE"
    /\ last' = Handled("start", <<>>, FALSE, None)
    /\ UNCHANGED <<job, view, text, result, user_data, cache>>

type_handler ==
    /\ state = "TYPE"
    /\ \E chosen \in {"rent", "sell"} :
          LET ud == Put(user_data, "type", Some(chosen))
          IN /\ IF cache[chosen] = {}
                THEN /\ user_data' = ud
                     /\ state' = "END"
                ELSE /\ user_data' = Put(ud, "districts_selected", Some({}))
                     /\ state' = "DISTRICTS"
             /\ last' = Handled("type_handler", <<"type", chosen>>, FALSE, None)
    /\ UNCHANGED <<job, view, text, result, cache>>

districts_callback ==
    /\ state = "DISTRICTS"
    /\ \E data \in {<<"districts", "done">>, <<"districts", "any">>}
                   \cup {<<"toggle", d>> : d \in cache[user_data["type"][1]]} :
          /\ IF data = <<"districts", "done">>
             THEN /\ user_data' = user_data
                  /\ state' = "BUDGET"
             ELSE IF data = <<"districts", "any">>
             THEN /\ user_data' = Put(user_data, "districts_selected", None)
                  /\ state' = "BUDGET"
             ELSE LET sel == IF Get(user_data, "districts_selected") = None
                             THEN {}
                             ELSE Get(user_data, "districts_selected")[1]
                  IN /\ user_data' = Put(user_data, "districts_selected",
                                         Some(Toggle(sel, data[2])))
                     /\ state' = "DISTRICTS"
          /\ last' = Handled("districts_callback", data, FALSE, None)
    /\ UNCHANGED <<job, view, text, result, cache>>

\* The budget step with a text without digits taken as "no limit".
budget_message_lenient ==
    /\ state = "BUDGET"
    /\ \E sent \in BudgetTexts :
          LET digits == SelectSeq(str_strip(sent), IsDigit)
              limit == IF str_lower(str_strip(sent)) \in {<<"s", "k", "i", "p">>, <<"n", "o">>}
                          \/ digits = <<>>
                       THEN None ELSE Some(IntOf(digits))
          IN /\ user_data' = Put(Put(user_data, "max_price", limit),
                                 "rooms_selected", Some({}))
             /\ state' = "ROOMS"
             /\ last' = Handled("budget_message", sent, FALSE, None)
    /\ UNCHANGED <<job, view, text, result, cache>>

\* int() of the digits of the text raises ValueError when there is none;
\* the handler catches it and asks again.
budget_message ==
    /\ state = "BUDGET"
    /\ \E sent \in BudgetTexts :
          LET digits == SelectSeq(str_strip(sent), IsDigit)
          IN /\ IF str_lower(str_strip(sent)) \in {<<"s", "k", "i", "p">>, <<"n", "o">>}
                THEN /\ user_data' = Put(Put(user_data, "max_price", None),
                                         "rooms_selected", Some({}))
                     /\ state' = "ROOMS"
                ELSE IF digits = <<>>
                THEN /\ user_data' = user_data
                     /\ state' = "BUDGET"
                ELSE /\ user_data' = Put(Put(user_data, "max_price",
                                             Some(IntOf(digits))),
                                         "rooms_selected", Some({}))
                     /\ state' = "ROOMS"
             /\ last' = Handled("budget_message", sent, FALSE, None)
    /\ UNCHANGED <<job, view, text, result, cache>>

\* features_callback: the features question; the selection starts empty
\* unless the key is already there.
features_callback(ud) == SetDefault(ud, "features_selected", Some({}))

rooms_callback ==
    /\ state = "ROOMS"
    /\ \E val \in RoomButtons :
          LET ud == SetDefault(user_data, "rooms_selected", Some({}))
              sel == IF Get(ud, "rooms_selected") = None
                     THEN {} ELSE Get(ud, "rooms_selected")[1]
          IN /\ IF val = "any"
                THEN IF Get(ud, "type") = Some("sell")
                     THEN /\ user_data' = features_callback(
                                              Put(ud, "rooms_selected", None))
                          /\ state' = "FEATURES"
                     ELSE /\ user_data' = Put(ud, "rooms_selected", None)
                          /\ state' = "PETS"
                ELSE /\ user_data' = Put(ud, "rooms_selected",
                                         Some(Toggle(sel, IntOf(<<val>>))))
                     /\ state' = "ROOMS"
             /\ last' = Handled("rooms_callback", <<"room", val>>, FALSE, None)
    /\ UNCHANGED <<job, view, text, result, cache>>

\* "Next" at the rooms question taken with nothing selected.
rooms_done_callback_unchecked ==
    /\ state = "ROOMS"
    /\ IF Get(user_data, "type") = Some("sell")
       THEN /\ user_data' = features_callback(user_data)
            /\ state' = "FEATURES"
       ELSE /\ user_data' = user_data
            /\ state' = "PETS"
    /\ last' = Handled("rooms_done_callback", <<"rooms", "done">>, FALSE, None)
    /\ UNCHANGED <<job, view, text, result, cache>>

rooms_done_callback ==
    /\ state = "ROOMS"
    /\ IF Get(user_data, "rooms_selected") = Some({})
       THEN /\ user_data' = user_data
            /\ state' = "ROOMS"
       ELSE IF Get(user_data, "type") = Some("sell")
       THEN /\ user_data' = features_callback(user_data)
            /\ state' = "FEATURES"
       ELSE /\ user_data' = user_data
            /\ state' = "PETS"
    /\ last' = Handled("rooms_done_callback", <<"rooms", "done">>, FALSE, None)
    /\ UNCHANGED <<job, view, text, result, cache>>

pets_callback ==
    /\ state = "PETS"
    /\ \E val \in {"yes", "no"} :
          LET ud == Put(user_data, "pets_allowed", Some(val = "yes"))
          IN /\ user_data' = features_callback(
                                 IF Get(ud, "features_selected") = None
                                 THEN Put(ud, "features_selected", Some({}))
                                 ELSE ud)
             /\ last' = Handled("pets_callback", <<"pets", val>>, FALSE, None)
    /\ state' = "FEATURES"
    /\ UNCHANGED <<job, view, text, result, cache>>

\* finalize_and_search and send_results_page: the filters are read from
\* user_data; an exception of the search leaves the conversation where it
\* was.
finalize_and_search(ud, data) ==
    LET filters == Filters(Get(ud, "type"), Get(ud, "districts_selected"),
                           Get(ud, "max_price"), Get(ud, "rooms_selected"),
                           Get(ud, "pets_allowed"),
                           Get(ud, "features_selected"))
        found == search_posts(filters, db)
    IN /\ user_data' = ud
       /\ IF found.raised
          THEN /\ state' = state
               /\ last' = Handled("features_handler", data, TRUE, None)
          ELSE /\ state' = "CONFIRM"
               /\ \E l \in found.lists :
                     last' = Handled("features_handler", data, FALSE,
                                     Some([filters |-> filters,
                                           rows |-> found.rows,
                                           list |-> l]))

features_handler ==
    /\ state = "FEATURES"
    /\ \E data \in {<<"features", "done">>, <<"features", "skip">>}
                   \cup {<<"toggle", f>> : f \in FeatureButtons} :
          IF data = <<"features", "done">>
          THEN finalize_and_search(user_data, data)
          ELSE IF data = <<"features", "skip">>
          THEN finalize_and_search(Put(user_data, "features_selected", None),
                                   data)
          ELSE LET ud == SetDefault(user_data, "features_selected", Some({}))
               IN IF Get(ud, "features_selected") = None
                  THEN \* "val in sel" with sel None: TypeError
                       /\ user_data' = ud
                       /\ state' = state
                       /\ last' = Handled("features_handler", data, TRUE, None)
                  ELSE /\ user_data' = Put(ud, "features_selected",
                                  Some(Toggle(ud["features_selected"][1],
                                              data[2])))
                       /\ state' = "FEATURES"
                       /\ last' = Handled("features_handler", data, FALSE, None)
    /\ UNCHANGED <<job, view, text, result, cache>>

\* "Start a new search" on the results page: user_data.clear().  The page
\* buttons are shown for more than PAGE_SIZE results only, more than the
\* table of the model holds.
pagination_callback ==
    /\ state = "CONFIRM"
    /\ user_data' = [k \in {} |-> None]
    /\ state' = "TYPE"
    /\ last' = Handled("pagination_callback", <<"newsearch">>, FALSE, None)
    /\ UNCHANGED <<job, view, text, result, cache>>

\* The /cancel command, a fallback of a conversation in progress.
cancel ==
    /\ state # "END"
    /\ state' = "END"
    /\ last' = Handled("cancel", <<>>, FALSE, None)
    /\ UNCHANGED <<job, view, text, result, user_data, cache>>

\* A listing for sale next to the ones for rent.
SaleRow(id) ==
    [StoredPost(CHANNEL, id, ListingA, FALSE)
        EXCEPT !.type = "sell", !.created_at = Some(id)]

\* The table the bot runs on.
BotTable == {SearchRow(1, 1, FALSE), SaleRow(2)} \cup OtherRows

BotInit ==
    /\ RESET_DB = FALSE
    /\ utcnow = MaxMsgId
    /\ channel = [i \in MsgIds |-> None]
    /\ db = BotTable
    /\ session = db
    /\ pc = "idle"
    /\ messages = <<>>
    /\ pos = 1
    /\ seen_ids = {}
    /\ cutoff_date = 0
    /\ db0 = db
    /\ before_mark = {}
    /\ settled = None
    /\ running = 0
    /\ view = NoView
    /\ text = <<>>
    /\ result = None
    /\ NoConversation

BotNext ==
    \/ RefreshDistricts
    \/ start
    \/ type_handler
    \/ districts_callback
    \/ budget_message
    \/ rooms_callback
    \/ rooms_done_callback
    \/ pets_callback
    \/ features_handler
    \/ pagination_callback
    \/ cancel

SpecBot == BotInit /\ [][BotNext]_vars

\* The budget text is 'skip' or 'no', whatever its case and padding.
IsSkip(sent) == str_lower(str_strip(sent)) \in {<<"s", "k", "i", "p">>, <<"n", "o">>}

\* The budget text is a number: digits and nothing else.
IsNumber(sent) ==
    /\ str_strip(sent) # <<>>
    /\ \A i \in 1..Len(str_strip(sent)) : IsDigit(str_strip(sent)[i])

\* The budget text holds no digit at all.
NoDigit(sent) == \A i \in 1..Len(sent) : ~IsDigit(sent[i])

\* The step asked again and changed nothing.
Reprompted ==
    /\ state' = "BUDGET"
    /\ user_data' = user_data
    /\ ~last'.raised

\* C25, as the specification states it: at the budget step a text that is
\* not a number and is not 'skip' or 'no' is asked for again in place: the
\* conversation stays at the budget step, max_price is not set and no error
\* propagates.
C25_Original ==
    [][(/\ state = "BUDGET"
        /\ last'.handler = "budget_message"
        /\ ~IsSkip(last'.input)
        /\ ~IsNumber(last'.input)) => Reprompted]_vars

\* C25, amended: at the budget step a text that holds no digit and is not
\* 'skip' or 'no' is asked for again in place: the conversation stays at
\* the budget step, user_data is left as it was and no error propagates; a
\* text that holds a digit is taken as the number its digits spell.
C25_NoDigitReprompted ==
    [][(/\ state = "BUDGET"
        /\ last'.handler = "budget_message"
        /\ ~IsSkip(last'.input)
        /\ NoDigit(last'.input)) => Reprompted]_vars

C25_Witness ==
    /\ state = "BUDGET"
    /\ last.handler = "budget_message"
    /\ last.input = TWords
    /\ ~last.raised
    /\ "max_price" \notin DOMAIN user_data

\* A search has been made and its results are on the page.
Searched == last.handler = "features_handler" /\ last.results # None

\* C32: the filter handed to search_posts holds only what was chosen since
\* the conversation was entered with /start or "New search": a type, a
\* district, a price limit, a rooms selection, a pets answer or a feature
\* is in it only when the user chose it in this conversation, and a search
\* for sale carries no pets requirement.
C32_FilterOnlyCurrentSelections ==
    Searched =>
        LET f == last.results[1].filters
        IN /\ f.type # None => "type" \in last.chosen
           /\ Truthy(f.districts) => "districts_selected" \in last.chosen
           /\ f.max_price # None => "max_price" \in last.chosen
           /\ Truthy(f.rooms) => "rooms_selected" \in last.chosen
           /\ f.pets_allowed # None => "pets_allowed" \in last.chosen
           /\ Truthy(f.features) => "features_selected" \in last.chosen
           /\ f.type = Some("sell") => f.pets_allowed # Some(TRUE)

\* What is carried over: a search for sale with the pets answer of an
\* earlier conversation.
C32_Carried ==
    /\ Searched
    /\ last.results[1].filters.type = Some("sell")
    /\ last.results[1].filters.pets_allowed = Some(TRUE)
    /\ "pets_allowed" \notin last.chosen

\* The steps that take the conversation from one state to another.
Advance(from, to) == state = from /\ state' = to

\* C33: the conversation advances in the order TYPE, DISTRICTS, BUDGET,
\* ROOMS, PETS, FEATURES, CONFIRM only, with PETS for rent alone and a
\* search for sale going from ROOMS to FEATURES; apart from that /start
\* leads to TYPE, /cancel and an empty district list end the conversation
\* and "New search" leads from CONFIRM to TYPE.  search_posts is called
\* from FEATURES on "done" or "skip" only, and never with an empty rooms
\* selection.
C33_ConversationOrder ==
    [][/\ state' # state =>
             \/ last'.handler = "start" /\ state' = "TYPE"
             \/ last'.handler = "cancel" /\ state' = "END"
             \/ Advance("TYPE", "DISTRICTS")
             \/ /\ Advance("TYPE", "END")
                /\ cache[user_data'["type"][1]] = {}
             \/ Advance("DISTRICTS", "BUDGET")
             \/ Advance("BUDGET", "ROOMS")
             \/ Advance("ROOMS", "PETS") /\ Get(user_data, "type") = Some("rent")
             \/ Advance("ROOMS", "FEATURES") /\ Get(user_data, "type") = Some("sell")
             \/ Advance("PETS", "FEATURES")
             \/ Advance("FEATURES", "CONFIRM") /\ last'.results # None
             \/ /\ Advance("CONFIRM", "TYPE")
                /\ last'.handler = "pagination_callback"
       /\ (last'.results # None /\ last' # last) =>
             /\ state = "FEATURES"
             /\ last'.handler = "features_handler"
             /\ last'.input \in {<<"features", "done">>, <<"features", "skip">>}
             /\ last'.results[1].filters.rooms # Some({})]_vars

\* A search for sale with a rooms selection, made without the pets question.
C33_Witness ==
    /\ state = "CONFIRM"
    /\ Searched
    /\ last.results[1].filters.type = Some("sell")
    /\ last.results[1].filters.rooms = Some({1, 4})
    /\ "pets_allowed" \notin DOMAIN user_data

\* A search for rent after the pets question.
C33_WitnessRent ==
    /\ state = "CONFIRM"
    /\ Searched
    /\ last.results[1].filters.type = Some("rent")
    /\ last.results[1].filters.pets_allowed = Some(FALSE)

============================================================================
